---- MODULE Spec2Model ----
(***************************************************************************)
(* Model of the Connect-4 game server (backend/main.go): board engine,     *)
(* bot heuristic, game sessions, matchmaking, connection handlers and the  *)
(* three kinds of timer goroutine (bot thinking, bot fallback, disconnect  *)
(* grace).                                                                 *)
(***************************************************************************)
EXTENDS Integers, Sequences, FiniteSets, TLC

\* ------------------------------------------------------------------------
\* Program constants (main.go:20-31)
\* ------------------------------------------------------------------------
ROWS == 6
COLS == 7

Red == "red"
Yellow == "yellow"
Empty == ""

\* ------------------------------------------------------------------------
\* Bounds of the model
\* ------------------------------------------------------------------------
\* number of websocket connections (HandleWebSocket goroutines)
NumConns == 2
\* usernames a client may send in a join message: 1 .. NumNames
NumNames == 2
\* from a new server: players who joined a queue or were paired, GameState
\* objects allocated, discs placed by accepted moves
MaxJoins == 3
MaxGames == 2
MaxPlaced == 3
\* from a session under way: the same three
SeedJoins == 0
SeedGames == 0
SeedPlaced == 2
\* from a lobby with one player waiting: the same three
LobbyJoins == 1
LobbyGames == 1
LobbyPlaced == 2
\* clients send move columns -1 .. MaxCol, and COLS (out of range)
MaxCol == 1
\* discs dropped on a seed board when a board under test is built
MaxDrops == 2

VARIABLES
    conns,          \* per connection: the handler's locals player, game, and whether it returned
    players,        \* heap of Player objects
    games,          \* heap of GameState objects
    registry,       \* gs.games: game ID -> GameState
    playerGames,    \* gs.playerGames: username -> GameState
    waitingPlayers, \* gs.waitingPlayers
    fallbackTimers, \* pending bot-fallback goroutines (matchPlayer), by player
    botTasks,       \* pending makeBotMove goroutines, per game
    graceTimers,    \* pending disconnect goroutines (handleDisconnect), <<player, game>>
    forfeiting,     \* disconnect goroutines that hold game.mutex and have found
                    \* "player.Disconnected && game.Winner == \"\"" true
    budget,         \* what the bounds above still allow: joins, games, discs
    gsMutex,        \* gs.mutex: "free", or what is left of it after a handler died holding it
    lastCall,       \* the last move message or makeBotMove call: the return taken, and
                    \* the text of the error message written to the sender
    saved,          \* per GameState: the winner column of the rows saveGame inserted
    events,         \* per GameState: the game_start and game_end events sent
    lockedIO,       \* the kinds of message written so far while gs.mutex was held
    tBoard,         \* board under test (board-engine and heuristic functions)
    tOut            \* the last function applied to tBoard and what it returned

vars == <<conns, players, games, registry, playerGames, waitingPlayers,
          fallbackTimers, botTasks, graceTimers, forfeiting, budget, gsMutex,
          lastCall, saved, events, lockedIO, tBoard, tOut>>

serverVars == <<conns, players, games, registry, playerGames, waitingPlayers,
                fallbackTimers, botTasks, graceTimers, forfeiting, budget, gsMutex,
                lastCall, saved, events, lockedIO>>

Rows == 0 .. (ROWS - 1)
Cols == 0 .. (COLS - 1)

\* ------------------------------------------------------------------------
\* Board engine
\* ------------------------------------------------------------------------
\* createGame's board: ROWS x COLS of the zero value of Color
EmptyBoard == [r \in Rows |-> [c \in Cols |-> Empty]]

InGrid(r, c) == r >= 0 /\ r < ROWS /\ c >= 0 /\ c < COLS

\* the loop "for r := ROWS - 1; r >= 0; r--" of handleMove, makeBotMove and
\* canWin from row r on: the first empty row met going up, -1 when there is none
RECURSIVE FindRowFrom(_, _, _)
FindRowFrom(board, col, r) ==
    IF r < 0 THEN -1
    ELSE IF board[r][col] = Empty THEN r
    ELSE FindRowFrom(board, col, r - 1)

\* mutant: the column is searched from the top
RECURSIVE FindRowTopDown(_, _, _)
FindRowTopDown(board, col, r) ==
    IF r < 0 THEN -1
    ELSE IF board[ROWS - 1 - r][col] = Empty THEN ROWS - 1 - r
    ELSE FindRowTopDown(board, col, r - 1)

FindRowFromTop(board, col) == FindRowTopDown(board, col, ROWS - 1)

FindRow(board, col) == FindRowFrom(board, col, ROWS - 1)

\* one of the two inner loops of checkWinner: cells of `color` met at steps
\* i, i+1, .. < 4 from (row, col) in direction (dr, dc), up to the first cell
\* that is off the grid or of another value
RECURSIVE CountDir(_, _, _, _, _, _, _)
CountDir(board, color, row, col, dr, dc, i) ==
    IF i >= 4 THEN 0
    ELSE IF ~InGrid(row + dr * i, col + dc * i) THEN 0
    ELSE IF board[row + dr * i][col + dc * i] # color THEN 0
    ELSE 1 + CountDir(board, color, row, col, dr, dc, i + 1)

\* mutant: the loops run "i < 3"
RECURSIVE CountDirShort(_, _, _, _, _, _, _)
CountDirShort(board, color, row, col, dr, dc, i) ==
    IF i >= 3 THEN 0
    ELSE IF ~InGrid(row + dr * i, col + dc * i) THEN 0
    ELSE IF board[row + dr * i][col + dc * i] # color THEN 0
    ELSE 1 + CountDirShort(board, color, row, col, dr, dc, i + 1)

directions == << <<0, 1>>, <<1, 0>>, <<1, 1>>, <<1, -1>> >>

checkWinnerShort(board, row, col) ==
    /\ board[row][col] # Empty
    /\ \E d \in 1 .. Len(directions) :
          1 + CountDirShort(board, board[row][col], row, col,
                            directions[d][1], directions[d][2], 1)
            + CountDirShort(board, board[row][col], row, col,
                            -directions[d][1], -directions[d][2], 1) >= 4

\* mutant: of the four directions only {0, 1} is looked at
checkWinnerRowOnly(board, row, col) ==
    /\ board[row][col] # Empty
    /\ 1 + CountDir(board, board[row][col], row, col, 0, 1, 1)
         + CountDir(board, board[row][col], row, col, 0, -1, 1) >= 4

checkWinner(board, row, col) ==
    /\ board[row][col] # Empty
    /\ \E d \in 1 .. Len(directions) :
          1 + CountDir(board, board[row][col], row, col,
                       directions[d][1], directions[d][2], 1)
            + CountDir(board, board[row][col], row, col,
                       -directions[d][1], -directions[d][2], 1) >= 4

\* mutant: only the bottom row is looked at
isBoardFullBottomRow(board) == \A c \in Cols : board[ROWS - 1][c] # Empty

isBoardFull(board) == \A r \in Rows : \A c \in Cols : board[r][c] # Empty

isColumnAvailable(board, col) == col >= 0 /\ col < COLS /\ board[0][col] = Empty

\* ------------------------------------------------------------------------
\* Bot heuristic.  The code simulates on game.Board itself, so canWin and
\* getBotMove return the board they leave behind next to their result.
\* ------------------------------------------------------------------------
\* canWin once the row is found:
\*   game.Board[row][col] = color; wins := checkWinner; game.Board[row][col] = Empty
Simulate(board, row, col, color) ==
    IF row = -1 THEN [wins |-> FALSE, board |-> board]
    ELSE [wins |-> checkWinner([board EXCEPT ![row][col] = color], row, col),
          board |-> [[board EXCEPT ![row][col] = color] EXCEPT ![row][col] = Empty]]

\* mutant: the simulated disc is not taken back
canWinNoUndo(board, col, color) ==
    IF FindRow(board, col) = -1 THEN [wins |-> FALSE, board |-> board]
    ELSE [wins |-> checkWinner([board EXCEPT ![FindRow(board, col)][col] = color],
                               FindRow(board, col), col),
          board |-> [board EXCEPT ![FindRow(board, col)][col] = color]]

canWin(board, col, color) == Simulate(board, FindRow(board, col), col, color)

\* "for col := 0; col < COLS; col++ { if gs.canWin(game, col, color) { return col } }"
\* from column col on, with cw what canWin returned for col;
\* col = -1: the loop ended without a return
RECURSIVE WinScan(_, _, _)
RECURSIVE WinScanStep(_, _, _)
WinScanStep(cw, color, col) ==
    IF cw.wins THEN [col |-> col, board |-> cw.board]
    ELSE WinScan(cw.board, color, col + 1)

WinScan(board, color, col) ==
    IF col >= COLS THEN [col |-> -1, board |-> board]
    ELSE WinScanStep(canWin(board, col, color), color, col)

preference == <<2, 4, 1, 5, 0, 6>>

\* "for _, col := range []int{2, 4, 1, 5, 0, 6}"
RECURSIVE PreferenceScan(_, _)
PreferenceScan(board, i) ==
    IF i > Len(preference) THEN -1
    ELSE IF isColumnAvailable(board, preference[i]) THEN preference[i]
    ELSE PreferenceScan(board, i + 1)

\* mutant: the centre column is not preferred
NeutralMoveNoCentre(board) == [col |-> PreferenceScan(board, 1), board |-> board]

\* getBotMove after its two loops: the centre column, then the preference order
NeutralMove(board) ==
    IF isColumnAvailable(board, 3) THEN [col |-> 3, board |-> board]
    ELSE [col |-> PreferenceScan(board, 1), board |-> board]

\* mutant: no second loop
BlockMoveNone(own) == own

\* getBotMove after its first loop returned `own`: the second loop
BlockMove(own) ==
    IF own.col # -1 THEN own ELSE WinScan(own.board, Red, 0)

\* getBotMove after its second loop returned `found`
AfterScans(found) ==
    IF found.col # -1 THEN found ELSE NeutralMove(found.board)

\* mutant: the block is looked for before the win
getBotMoveBlockFirst(board) ==
    AfterScans(IF WinScan(board, Red, 0).col # -1 THEN WinScan(board, Red, 0)
               ELSE WinScan(board, Yellow, 0))

getBotMove(board) == AfterScans(BlockMove(WinScan(board, Yellow, 0)))

\* ------------------------------------------------------------------------
\* Boards under test: the functions above applied the way main_test.go
\* applies them, to a board built by hand.  A board is a seed (discs
\* dropped into columns, bottom up) plus up to MaxDrops more discs.
\* ------------------------------------------------------------------------
TestSeeds == <<
    \* empty
    <<  >>,
    \* redRow
    << <<0, Red>>, <<1, Red>>, <<2, Red>> >>,
    \* yellowRow
    << <<0, Yellow>>, <<1, Yellow>>, <<2, Yellow>> >>,
    \* redLeftYellowRight
    << <<1, Red>>, <<1, Red>>, <<1, Red>>, <<5, Yellow>>, <<5, Yellow>>, <<5, Yellow>> >>,
    \* yellowLeftRedRight
    << <<1, Yellow>>, <<1, Yellow>>, <<1, Yellow>>, <<5, Red>>, <<5, Red>>, <<5, Red>> >>,
    \* centreFull
    << <<3, Red>>, <<3, Red>>, <<3, Yellow>>, <<3, Yellow>>, <<3, Red>>, <<3, Red>>, <<2, Yellow>> >>,
    \* onlyEdges
    << <<1, Yellow>>, <<1, Yellow>>, <<1, Red>>, <<1, Red>>, <<1, Yellow>>, <<1, Yellow>>, <<2, Red>>, <<2, Red>>, <<2, Yellow>>, <<2, Yellow>>, <<2, Red>>, <<2, Red>>, <<3, Yellow>>, <<3, Yellow>>, <<3, Yellow>>, <<3, Red>>, <<3, Yellow>>, <<3, Yellow>>, <<4, Red>>, <<4, Red>>, <<4, Yellow>>, <<4, Yellow>>, <<4, Red>>, <<4, Red>>, <<5, Yellow>>, <<5, Yellow>>, <<5, Red>>, <<5, Red>>, <<5, Yellow>>, <<5, Yellow>> >>,
    \* oneLeft
    << <<0, Red>>, <<0, Red>>, <<0, Yellow>>, <<0, Yellow>>, <<0, Red>>, <<0, Red>>, <<1, Yellow>>, <<1, Yellow>>, <<1, Red>>, <<1, Red>>, <<1, Yellow>>, <<1, Yellow>>, <<2, Red>>, <<2, Red>>, <<2, Yellow>>, <<2, Yellow>>, <<2, Red>>, <<2, Red>>, <<3, Yellow>>, <<3, Yellow>>, <<3, Yellow>>, <<3, Red>>, <<3, Yellow>>, <<3, Yellow>>, <<4, Red>>, <<4, Red>>, <<4, Yellow>>, <<4, Yellow>>, <<4, Red>>, <<4, Red>>, <<5, Yellow>>, <<5, Yellow>>, <<5, Red>>, <<5, Red>>, <<5, Yellow>>, <<5, Yellow>>, <<6, Red>>, <<6, Red>>, <<6, Yellow>>, <<6, Yellow>>, <<6, Red>> >>,
    \* full
    << <<0, Red>>, <<0, Red>>, <<0, Yellow>>, <<0, Yellow>>, <<0, Red>>, <<0, Red>>, <<1, Yellow>>, <<1, Yellow>>, <<1, Red>>, <<1, Red>>, <<1, Yellow>>, <<1, Yellow>>, <<2, Red>>, <<2, Red>>, <<2, Yellow>>, <<2, Yellow>>, <<2, Red>>, <<2, Red>>, <<3, Yellow>>, <<3, Yellow>>, <<3, Yellow>>, <<3, Red>>, <<3, Yellow>>, <<3, Yellow>>, <<4, Red>>, <<4, Red>>, <<4, Yellow>>, <<4, Yellow>>, <<4, Red>>, <<4, Red>>, <<5, Yellow>>, <<5, Yellow>>, <<5, Red>>, <<5, Red>>, <<5, Yellow>>, <<5, Yellow>>, <<6, Red>>, <<6, Red>>, <<6, Yellow>>, <<6, Yellow>>, <<6, Red>>, <<6, Red>> >>,
    \* diagonals
    << <<0, Red>>, <<1, Yellow>>, <<1, Red>>, <<2, Yellow>>, <<2, Yellow>>, <<2, Red>>, <<3, Yellow>>, <<3, Red>>, <<3, Yellow>>, <<6, Yellow>>, <<5, Red>>, <<5, Yellow>>, <<4, Red>>, <<4, Red>>, <<4, Yellow>> >>,
    \* gapRow
    << <<3, Red>>, <<4, Red>>, <<6, Red>>, <<3, Yellow>>, <<4, Yellow>>, <<6, Yellow>> >>
>>

RECURSIVE DropAll(_, _, _)
DropAll(board, drops, i) ==
    IF i > Len(drops) THEN board
    ELSE LET col == drops[i][1]
             row == FindRow(board, col)
         IN  DropAll([board EXCEPT ![row][col] = drops[i][2]], drops, i + 1)

NoOut == [fn |-> "none", row |-> -1, col |-> -1, color |-> Empty, ret |-> -1,
          before |-> EmptyBoard, seed |-> 0, drops |-> 0]

\* a disc of either colour is dropped into a column with room
TDrop(col, color) ==
    /\ tOut.fn = "none"
    /\ tOut.drops < MaxDrops
    /\ FindRow(tBoard, col) # -1
    /\ tBoard' = [tBoard EXCEPT ![FindRow(tBoard, col)][col] = color]
    /\ tOut' = [NoOut EXCEPT !.seed = tOut.seed, !.drops = tOut.drops + 1]
    /\ UNCHANGED serverVars

TCheckWinner(row, col) ==
    /\ tOut.fn = "none"
    /\ tOut' = [tOut EXCEPT !.fn = "checkWinner", !.row = row, !.col = col,
                            !.color = Empty, !.before = tBoard,
                            !.ret = IF checkWinner(tBoard, row, col) THEN 1 ELSE 0]
    /\ UNCHANGED <<tBoard, serverVars>>

TCanWin(col, color) ==
    LET cw == canWin(tBoard, col, color)
    IN  /\ tOut.fn = "none"
        /\ tOut' = [tOut EXCEPT !.fn = "canWin", !.row = -1, !.col = col,
                                !.color = color, !.before = tBoard,
                                !.ret = IF cw.wins THEN 1 ELSE 0]
        /\ tBoard' = cw.board
        /\ UNCHANGED serverVars

TGetBotMove ==
    LET bm == getBotMove(tBoard)
    IN  /\ tOut.fn = "none"
        /\ tOut' = [tOut EXCEPT !.fn = "getBotMove", !.row = -1, !.col = -1,
                                !.color = Empty, !.before = tBoard, !.ret = bm.col]
        /\ tBoard' = bm.board
        /\ UNCHANGED serverVars

TIsBoardFull ==
    /\ tOut.fn = "none"
    /\ tOut' = [tOut EXCEPT !.fn = "isBoardFull", !.row = -1, !.col = -1,
                            !.color = Empty, !.before = tBoard,
                            !.ret = IF isBoardFull(tBoard) THEN 1 ELSE 0]
    /\ UNCHANGED <<tBoard, serverVars>>

NextTest ==
    \/ \E col \in Cols : \E color \in {Red, Yellow} : TDrop(col, color)
    \/ \E row \in Rows : \E col \in Cols : TCheckWinner(row, col)
    \/ \E col \in Cols : \E color \in {Red, Yellow} : TCanWin(col, color)
    \/ TGetBotMove
    \/ TIsBoardFull

\* ------------------------------------------------------------------------
\* Server state
\* ------------------------------------------------------------------------
Conns == 1 .. NumConns

NamePool == <<"alice", "bob", "carol", "dave">>
Names == {NamePool[i] : i \in 1 .. NumNames}

\* clients send these columns in move messages
MoveCols == (-1 .. MaxCol) \cup {COLS}


\* Streams and usernames are interchangeable: they are numbered in the order
\* in which they first show up ("idle": upgraded, nothing read so far).
Active(c) ==
    /\ conns[c].status \in {"idle", "open"}
    /\ \A d \in 1 .. (c - 1) : conns[d].status # "idle"

UsedNames == {players[p].Username : p \in 1 .. Len(players)}
JoinNames == {NamePool[i] : i \in 1 .. NumNames} \cap
             ({NamePool[i] : i \in 1 .. (Cardinality(UsedNames \ {"Bot"}) + 1)} \cup UsedNames)

\* &Player{Username: msg.Username, Conn: conn, LastSeen: time.Now()}
NewPlayer(username, conn) ==
    [Username |-> username, Color |-> Empty, Conn |-> conn, Disconnected |-> FALSE]

\* &Player{Username: "Bot", Color: Yellow}
BotPlayer == [Username |-> "Bot", Color |-> Yellow, Conn |-> 0, Disconnected |-> FALSE]

\* &GameState{ID: gameID, Board: board, Player1: p1, Player2: p2,
\*            CurrentPlayer: Red, StartTime: time.Now(), IsBot: isBot}
\* EndTime: FALSE is the nil pointer
NewGame(id, p1, p2, isBot) ==
    [ID |-> id, Board |-> EmptyBoard, Player1 |-> p1, Player2 |-> p2,
     CurrentPlayer |-> Red, Winner |-> "", EndTime |-> FALSE, IsBot |-> isBot]

Opposite(color) == IF color = Red THEN Yellow ELSE Red

\* ------------------------------------------------------------------------
\* Game session: handleMove and makeBotMove on one GameState, each run
\* under game.mutex from its first line to its last.  `outcome` names the
\* return taken, `bot` says whether the bot goroutine is started.
\* ------------------------------------------------------------------------
Rejected(game, outcome) == [game |-> game, outcome |-> outcome, bot |-> FALSE]

Finished(game, board, winner, outcome) ==
    [game |-> [game EXCEPT !.Board = board, !.Winner = winner, !.EndTime = TRUE],
     outcome |-> outcome, bot |-> FALSE]

\* "if game.CurrentPlayer == Red { Yellow } else { Red }"
NextPlayer(game) == IF game.CurrentPlayer = Red THEN Yellow ELSE Red

\* mutant: the full board is looked for before the win
AfterPlacingDrawFirst(game, board, row, col, color) ==
    IF isBoardFull(board) THEN Finished(game, board, "draw", "draw")
    ELSE IF checkWinner(board, row, col) THEN Finished(game, board, color, "win")
    ELSE [game |-> [game EXCEPT !.Board = board, !.CurrentPlayer = NextPlayer(game)],
          outcome |-> "moved",
          bot |-> game.IsBot /\ NextPlayer(game) = Yellow]

\* mutant: no "go func() { ...; gs.makeBotMove(game) }()"
AfterPlacingNoBot(game, board, row, col, color) ==
    IF checkWinner(board, row, col) THEN Finished(game, board, color, "win")
    ELSE IF isBoardFull(board) THEN Finished(game, board, "draw", "draw")
    ELSE [game |-> [game EXCEPT !.Board = board, !.CurrentPlayer = NextPlayer(game)],
          outcome |-> "moved",
          bot |-> FALSE]

\* handleMove from "game.Board[row][col] = player.Color" on; board is the board
\* with the disc in it
AfterPlacing(game, board, row, col, color) ==
    IF checkWinner(board, row, col) THEN Finished(game, board, color, "win")
    ELSE IF isBoardFull(board) THEN Finished(game, board, "draw", "draw")
    ELSE [game |-> [game EXCEPT !.Board = board, !.CurrentPlayer = NextPlayer(game)],
          outcome |-> "moved",
          bot |-> game.IsBot /\ NextPlayer(game) = Yellow]

\* handleMove from the search for the row on; row is what the search found
PlaceAt(game, color, col, row) ==
    IF row = -1 THEN Rejected(game, "full")
    ELSE AfterPlacing(game, [game.Board EXCEPT ![row][col] = color], row, col, color)

\* mutant: the turn is passed on before the column is looked at
handleMoveFlipFirst(game, color, col) ==
    IF game.Winner # "" THEN Rejected(game, "finished")
    ELSE IF color # game.CurrentPlayer THEN Rejected(game, "notturn")
    ELSE IF col < 0 \/ col >= COLS
         THEN Rejected([game EXCEPT !.CurrentPlayer = Opposite(game.CurrentPlayer)], "invalid")
    ELSE IF FindRow(game.Board, col) = -1
         THEN Rejected([game EXCEPT !.CurrentPlayer = Opposite(game.CurrentPlayer)], "full")
    ELSE PlaceAt(game, color, col, FindRow(game.Board, col))

\* mutant: no "if game.Winner != \"\" { return }"
handleMoveNoFinishedCheck(game, color, col) ==
    IF color # game.CurrentPlayer THEN Rejected(game, "notturn")
    ELSE IF col < 0 \/ col >= COLS THEN Rejected(game, "invalid")
    ELSE PlaceAt(game, color, col, FindRow(game.Board, col))

handleMove(game, color, col) ==
    IF game.Winner # "" THEN Rejected(game, "finished")
    ELSE IF color # game.CurrentPlayer THEN Rejected(game, "notturn")
    ELSE IF col < 0 \/ col >= COLS THEN Rejected(game, "invalid")
    ELSE PlaceAt(game, color, col, FindRow(game.Board, col))

\* makeBotMove from "game.Board[row][col] = Yellow" on
BotAfterPlacing(game, board, row, col) ==
    IF checkWinner(board, row, col)
       THEN [game |-> [game EXCEPT !.Board = board, !.Winner = "yellow", !.EndTime = TRUE],
             outcome |-> "win"]
    ELSE IF isBoardFull(board)
       THEN [game |-> [game EXCEPT !.Board = board, !.Winner = "draw", !.EndTime = TRUE],
             outcome |-> "draw"]
    ELSE [game |-> [game EXCEPT !.Board = board, !.CurrentPlayer = Red],
          outcome |-> "moved"]

\* makeBotMove from the search for the row on
BotPlaceAt(game, board, col, row) ==
    IF row = -1 THEN [game |-> [game EXCEPT !.Board = board], outcome |-> "full"]
    ELSE BotAfterPlacing(game, [board EXCEPT ![row][col] = Yellow], row, col)

\* makeBotMove after "col := gs.getBotMove(game)": bm is the column and the
\* board getBotMove left
BotPlace(game, bm) ==
    IF bm.col = -1 THEN [game |-> [game EXCEPT !.Board = bm.board], outcome |-> "nomove"]
    ELSE BotPlaceAt(game, bm.board, bm.col, FindRow(bm.board, bm.col))

\* mutant: no "if game.Winner != \"\" { return }"
makeBotMoveNoFinishedCheck(game) == BotPlace(game, getBotMove(game.Board))

makeBotMove(game) ==
    IF game.Winner # "" THEN [game |-> game, outcome |-> "finished"]
    ELSE BotPlace(game, getBotMove(game.Board))

Placing(outcome) == outcome \in {"win", "draw", "moved"}

NoCall == [fn |-> "none", game |-> 0, color |-> Empty, outcome |-> "none", reply |-> ""]

\* the error message handleMove writes to player.Conn before it returns
Reply(outcome) ==
    IF outcome = "notturn" THEN "Not your turn"
    ELSE IF outcome = "full" THEN "Column is full"
    ELSE ""

\* getOpponent(game, player): pointer comparison with game.Player1
getOpponent(game, player) ==
    IF game.Player1 = player THEN game.Player2 ELSE game.Player1

\* ------------------------------------------------------------------------
\* Matchmaking
\* ------------------------------------------------------------------------
\* generateID: an identifier; nothing in createGame checks it against gs.games,
\* so it may be one already in use.  Identifiers are numbered in order of first use.
UsedIDs == {games[g].ID : g \in 1 .. Len(games)}
GeneratedIDs == 1 .. (Cardinality(UsedIDs) + 1)

\* mutant: the later joiner is given the first seat
createGameLaterFirst(ps, p1, p2, isBot, id) ==
    LET g == Len(games) + 1
        pg1 == [playerGames EXCEPT ![ps[p1].Username] = g]
    IN  [players |-> [ps EXCEPT ![p2].Color = Red, ![p1].Color = Yellow],
         games |-> Append(games, NewGame(id, p2, p1, isBot)),
         registry |-> (id :> g) @@ registry,
         playerGames |-> IF isBot THEN pg1 ELSE [pg1 EXCEPT ![ps[p2].Username] = g],
         saved |-> Append(saved, <<>>),
         events |-> Append(events, [game_start |-> 1, game_end |-> 0]),
         game |-> g]

\* what createGame writes: game_start to the players' connections and the
\* game_start event (sendKafkaEvent)
CreateGameWrites == {"game_start", "game_start event"}

\* createGame(p1, p2, isBot) on the heap `ps`, with `id` what generateID returned
createGame(ps, p1, p2, isBot, id) ==
    LET g == Len(games) + 1
        pg1 == [playerGames EXCEPT ![ps[p1].Username] = g]
    IN  [players |-> [ps EXCEPT ![p1].Color = Red, ![p2].Color = Yellow],
         games |-> Append(games, NewGame(id, p1, p2, isBot)),
         registry |-> (id :> g) @@ registry,
         playerGames |-> IF isBot THEN pg1 ELSE [pg1 EXCEPT ![ps[p2].Username] = g],
         saved |-> Append(saved, <<>>),
         events |-> Append(events, [game_start |-> 1, game_end |-> 0]),
         game |-> g]

\* the seat the rejoin loop of matchPlayer finds for `username` in game g:
\* 1, 2, or 0 when the game does not match
RejoinSeat(g, username) ==
    IF games[g].Winner # "" THEN 0
    ELSE IF /\ players[games[g].Player1].Username = username
            /\ players[games[g].Player1].Disconnected THEN 1
    ELSE IF /\ players[games[g].Player2].Username = username
            /\ players[games[g].Player2].Disconnected THEN 2
    ELSE 0

\* mutant: the seat's flag is left as it is
ReattachKeepsFlag(ps, seat, c, p) ==
    [ps EXCEPT ![seat].Conn = c, ![p].Color = ps[seat].Color]

\* the body of a matching branch of the rejoin loop: game.PlayerN.Conn =
\* player.Conn; game.PlayerN.Disconnected = false; player.Color = game.PlayerN.Color
Reattach(ps, seat, c, p) ==
    [ps EXCEPT ![seat].Conn = c, ![seat].Disconnected = FALSE,
               ![p].Color = ps[seat].Color]

\* "for _, game := range gs.games": the games the map holds, met in any order
RegisteredGames == {registry[id] : id \in DOMAIN registry}
RejoinGames(username) == {g \in RegisteredGames : RejoinSeat(g, username) # 0}

\* mutant: the queue is never looked at, every join is queued
HasWaitingNever == FALSE

\* if len(gs.waitingPlayers) > 0
HasWaiting == Len(waitingPlayers) > 0

\* case "join": player = &Player{...}; game = gs.matchPlayer(player)
Join(c, username) ==
    /\ Active(c)
    /\ username \in JoinNames
    /\ LET p == Len(players) + 1
           ps == Append(players, NewPlayer(username, c))
           spent == [budget EXCEPT !.joins = @ - 1]
       IN  IF gsMutex # "free"
           THEN \* gs.mutex.Lock() never returns
                /\ players' = ps
                /\ conns' = [conns EXCEPT ![c].player = p, ![c].status = "blocked"]
                /\ gsMutex' = "wwait"
                /\ UNCHANGED <<games, registry, playerGames, waitingPlayers,
                               fallbackTimers, botTasks, budget, saved, events, lockedIO>>
           ELSE IF RejoinGames(username) # {}
           THEN \E g \in RejoinGames(username) :
                  LET seat == IF RejoinSeat(g, username) = 1 THEN games[g].Player1
                              ELSE games[g].Player2
                  IN  /\ players' = Reattach(ps, seat, c, p)
                      /\ conns' = [conns EXCEPT ![c].player = p, ![c].game = g, ![c].status = "open"]
                      \* gs.sendGameState(game) before the deferred Unlock
                      /\ lockedIO' = lockedIO \cup {"move"}
                      /\ UNCHANGED <<games, registry, playerGames, waitingPlayers,
                                     fallbackTimers, botTasks, gsMutex, budget,
                                     saved, events>>
           ELSE IF HasWaiting
           THEN /\ budget.joins > 0
                /\ budget.games > 0
                /\ budget' = [spent EXCEPT !.games = @ - 1]
                /\ \E id \in GeneratedIDs :
                     LET cg == createGame(ps, Head(waitingPlayers), p, FALSE, id)
                     IN  /\ players' = cg.players
                         /\ games' = cg.games
                         /\ registry' = cg.registry
                         /\ playerGames' = cg.playerGames
                         /\ saved' = cg.saved
                         /\ events' = cg.events
                         /\ botTasks' = Append(botTasks, 0)
                         /\ conns' = [conns EXCEPT ![c].player = p, ![c].game = cg.game, ![c].status = "open"]
                /\ waitingPlayers' = Tail(waitingPlayers)
                /\ lockedIO' = lockedIO \cup CreateGameWrites
                /\ UNCHANGED <<fallbackTimers, gsMutex>>
           ELSE \* queued only while a GameState is left for her to be seated in
                /\ budget.joins > 0
                /\ budget.games > 0
                /\ players' = ps
                /\ waitingPlayers' = Append(waitingPlayers, p)
                /\ fallbackTimers' = fallbackTimers \cup {p}
                /\ budget' = spent
                /\ conns' = [conns EXCEPT ![c].player = p, ![c].game = 0, ![c].status = "open"]
                \* player.Conn.WriteJSON(Message{Type: "waiting"})
                /\ lockedIO' = lockedIO \cup {"waiting"}
                /\ UNCHANGED <<games, registry, playerGames, botTasks, gsMutex,
                               saved, events>>
    /\ UNCHANGED <<graceTimers, forfeiting, lastCall, tBoard, tOut>>

InQueue(p) == \E i \in 1 .. Len(waitingPlayers) : waitingPlayers[i] = p

\* mutant: the fallback goroutine leaves the queue as it found it
RemoveWaitingKeeps(p) == waitingPlayers

\* append(gs.waitingPlayers[:i], gs.waitingPlayers[i+1:]...) for the index of p
RemoveWaiting(p) ==
    LET i == CHOOSE j \in 1 .. Len(waitingPlayers) :
                 /\ waitingPlayers[j] = p
                 /\ \A k \in 1 .. (j - 1) : waitingPlayers[k] # p
    IN  SubSeq(waitingPlayers, 1, i - 1) \o SubSeq(waitingPlayers, i + 1, Len(waitingPlayers))

\* the goroutine matchPlayer starts for a waiting player, after its sleep
FallbackTimer(p) ==
    /\ p \in fallbackTimers
    /\ fallbackTimers' = fallbackTimers \ {p}
    /\ IF gsMutex # "free"
       THEN /\ gsMutex' = "wwait"
            /\ UNCHANGED <<players, games, registry, playerGames, waitingPlayers,
                           botTasks, budget, saved, events, lockedIO>>
       ELSE IF InQueue(p)
       THEN /\ budget.games > 0
            /\ budget' = [budget EXCEPT !.games = @ - 1]
            /\ \E id \in GeneratedIDs :
                 LET bot == Len(players) + 1
                     cg == createGame(Append(players, BotPlayer), p, bot, TRUE, id)
                 IN  /\ players' = cg.players
                     /\ games' = cg.games
                     /\ registry' = cg.registry
                     /\ playerGames' = cg.playerGames
                     /\ saved' = cg.saved
                     /\ events' = cg.events
                     /\ botTasks' = Append(botTasks, 0)
            /\ waitingPlayers' = RemoveWaiting(p)
            /\ lockedIO' = lockedIO \cup CreateGameWrites
            /\ UNCHANGED gsMutex
       ELSE UNCHANGED <<players, games, registry, playerGames, waitingPlayers,
                        botTasks, gsMutex, budget, saved, events, lockedIO>>
    /\ UNCHANGED <<conns, graceTimers, forfeiting, lastCall, tBoard, tOut>>

\* ------------------------------------------------------------------------
\* Connection handler: move messages and the end of the stream
\* ------------------------------------------------------------------------
\* mutant: the winner column holds the winning colour
saveGameColour(game) == game.Winner

\* saveGame(game): the winner column of the row it inserts
saveGame(game) ==
    IF game.Winner = "red" THEN players[game.Player1].Username
    ELSE IF game.Winner = "yellow" THEN players[game.Player2].Username
    ELSE ""

\* the returns of handleMove and makeBotMove that come after
\* gs.saveGame(game) and gs.broadcastGameOver(game)
Ended(outcome) == outcome \in {"win", "draw"}

\* gs.saveGame(game); gs.broadcastGameOver(game), which sends game_end
SaveAndBroadcast(g, game, outcome) ==
    /\ saved' = IF Ended(outcome) THEN [saved EXCEPT ![g] = Append(@, saveGame(game))]
                ELSE saved
    /\ events' = IF Ended(outcome) THEN [events EXCEPT ![g].game_end = @ + 1]
                 ELSE events

\* game.mutex of game g is held: by a disconnect goroutine between its test
\* and its writes (every other critical section is one step here)
GameLocked(g) == \E t \in forfeiting : t[2] = g

\* the makeBotMove goroutines started and not yet run, in games 1 .. i; the
\* disc budget keeps one disc for each of them
RECURSIVE PendingBotMoves(_)
PendingBotMoves(i) == IF i = 0 THEN 0 ELSE botTasks[i] + PendingBotMoves(i - 1)

\* gs.handleMove(game, player, msg.Column) for the game g the lookup gave;
\* hm is what handleMove did
Routed(c, g, hm) ==
    /\ ~GameLocked(g)
    /\ Placing(hm.outcome)
         => budget.discs > PendingBotMoves(Len(botTasks)) + (IF hm.bot THEN 1 ELSE 0)
    /\ conns' = [conns EXCEPT ![c].game = g, ![c].status = "open"]
    /\ games' = [games EXCEPT ![g] = hm.game]
    /\ botTasks' = IF hm.bot THEN [botTasks EXCEPT ![g] = @ + 1] ELSE botTasks
    /\ budget' = IF Placing(hm.outcome) THEN [budget EXCEPT !.discs = @ - 1] ELSE budget
    /\ lastCall' = [fn |-> "handleMove", game |-> g,
                    color |-> players[conns[c].player].Color, outcome |-> hm.outcome,
                    reply |-> Reply(hm.outcome)]
    /\ SaveAndBroadcast(g, hm.game, hm.outcome)
    /\ UNCHANGED gsMutex

\* case "move": the lookup in gs.playerGames under gs.mutex.RLock(), then handleMove
Move(c, col) ==
    /\ Active(c)
    /\ IF gsMutex = "wwait"
       THEN \* gs.mutex.RLock() never returns: a writer waits
            /\ conns' = [conns EXCEPT ![c].status = "blocked"]
            /\ UNCHANGED <<games, botTasks, budget, gsMutex, lastCall, saved, events>>
       ELSE IF conns[c].player = 0
       THEN \* player.Username on the nil player panics between RLock and RUnlock;
            \* net/http recovers, the deferred conn.Close() runs
            /\ conns' = [conns EXCEPT ![c].status = "closed"]
            /\ gsMutex' = "rleak"
            /\ lastCall' = [NoCall EXCEPT !.fn = "move", !.outcome = "panic"]
            /\ UNCHANGED <<games, botTasks, budget, saved, events>>
       ELSE LET player == conns[c].player
                g == playerGames[players[player].Username]
            IN  IF g = 0
                THEN \* conn.WriteJSON(Message{Type: "error", Message: "Game not found"})
                     /\ conns' = [conns EXCEPT ![c].game = 0, ![c].status = "open"]
                     /\ lastCall' = [NoCall EXCEPT !.fn = "move", !.outcome = "nogame",
                                                   !.reply = "Game not found"]
                     /\ UNCHANGED <<games, botTasks, budget, gsMutex, saved, events>>
                ELSE Routed(c, g, handleMove(games[g], players[player].Color, col))
    /\ UNCHANGED <<players, registry, playerGames, waitingPlayers, fallbackTimers,
                   graceTimers, forfeiting, lockedIO, tBoard, tOut>>

\* conn.ReadJSON fails: handleDisconnect when both locals are set, then break
Close(c) ==
    /\ Active(c)
    /\ conns' = [conns EXCEPT ![c].status = "closed"]
    /\ IF conns[c].player # 0 /\ conns[c].game # 0
       THEN /\ ~GameLocked(conns[c].game)
            /\ players' = [players EXCEPT ![conns[c].player].Disconnected = TRUE]
            /\ graceTimers' = graceTimers \cup {<<conns[c].player, conns[c].game>>}
       ELSE UNCHANGED <<players, graceTimers>>
    /\ UNCHANGED <<games, registry, playerGames, waitingPlayers, fallbackTimers,
                   botTasks, forfeiting, budget, gsMutex, lastCall, saved, events,
                   lockedIO, tBoard, tOut>>

\* mutant: the test is "player.Disconnected" alone
ForfeitTestNoWinner(p, g) == players[p].Disconnected

\* "if player.Disconnected && game.Winner == \"\""
ForfeitTest(p, g) == players[p].Disconnected /\ games[g].Winner = ""

\* the goroutine handleDisconnect starts, after its sleep: game.mutex.Lock()
\* and the test "player.Disconnected && game.Winner == \"\"".  The rejoin
\* loop of matchPlayer does not take game.mutex, so it can run between this
\* test and the writes of GraceForfeit.
GraceTimer(p, g) ==
    /\ <<p, g>> \in graceTimers
    /\ ~GameLocked(g)
    /\ graceTimers' = graceTimers \ {<<p, g>>}
    /\ forfeiting' = IF ForfeitTest(p, g) THEN forfeiting \cup {<<p, g>>} ELSE forfeiting
    /\ UNCHANGED <<conns, players, games, registry, playerGames, waitingPlayers,
                   fallbackTimers, botTasks, budget, gsMutex, lastCall, saved, events,
                   lockedIO, tBoard, tOut>>

\* the body of that test: game.Winner, game.EndTime, gs.saveGame(game), and
\* the deferred game.mutex.Unlock()
GraceForfeit(p, g) ==
    /\ <<p, g>> \in forfeiting
    /\ forfeiting' = forfeiting \ {<<p, g>>}
    /\ games' = [games EXCEPT ![g].Winner = players[getOpponent(games[g], p)].Color,
                              ![g].EndTime = TRUE]
    /\ saved' = [saved EXCEPT ![g] = Append(@, saveGame(games'[g]))]
    /\ UNCHANGED <<conns, players, registry, playerGames, waitingPlayers, fallbackTimers,
                   botTasks, graceTimers, budget, gsMutex, lastCall, events, lockedIO,
                   tBoard, tOut>>

\* gs.makeBotMove(game) for game g; bm is what makeBotMove did
BotMoved(g, bm) ==
    /\ Placing(bm.outcome) => budget.discs > 0
    /\ games' = [games EXCEPT ![g] = bm.game]
    /\ budget' = IF Placing(bm.outcome) THEN [budget EXCEPT !.discs = @ - 1] ELSE budget
    /\ lastCall' = [fn |-> "makeBotMove", game |-> g, color |-> Yellow, outcome |-> bm.outcome,
                    reply |-> ""]
    /\ SaveAndBroadcast(g, bm.game, bm.outcome)

\* the goroutine handleMove starts in a bot game, after its sleep
MakeBotMove(g) ==
    /\ botTasks[g] > 0
    /\ ~GameLocked(g)
    /\ BotMoved(g, makeBotMove(games[g]))
    /\ botTasks' = [botTasks EXCEPT ![g] = @ - 1]
    /\ UNCHANGED <<conns, players, registry, playerGames, waitingPlayers, fallbackTimers,
                   graceTimers, forfeiting, gsMutex, lockedIO, tBoard, tOut>>

Next ==
    \/ \E c \in Conns : \E username \in Names : Join(c, username)
    \/ \E p \in fallbackTimers : FallbackTimer(p)
    \/ \E c \in Conns : \E col \in MoveCols : Move(c, col)
    \/ \E c \in Conns : Close(c)
    \/ \E t \in graceTimers : GraceTimer(t[1], t[2])
    \/ \E t \in forfeiting : GraceForfeit(t[1], t[2])
    \/ \E g \in 1 .. Len(games) : MakeBotMove(g)

\* NewGameServer, and NumConns streams upgraded: player and game are nil
Init ==
    /\ conns = [c \in Conns |-> [player |-> 0, game |-> 0, status |-> "idle"]]
    /\ players = <<>>
    /\ games = <<>>
    /\ registry = <<>>
    /\ playerGames = [u \in Names |-> 0]
    /\ waitingPlayers = <<>>
    /\ fallbackTimers = {}
    /\ botTasks = <<>>
    /\ graceTimers = {}
    /\ forfeiting = {}
    /\ budget = [joins |-> MaxJoins, games |-> MaxGames, discs |-> MaxPlaced]
    /\ gsMutex = "free"
    /\ lastCall = NoCall
    /\ saved = <<>>
    /\ events = <<>>
    /\ lockedIO = {}
    /\ tBoard = EmptyBoard
    /\ tOut = NoOut

Spec == Init /\ [][Next]_vars

\* the functions applied to every board under test
InitTest ==
    /\ conns = [c \in Conns |-> [player |-> 0, game |-> 0, status |-> "idle"]]
    /\ players = <<>>
    /\ games = <<>>
    /\ registry = <<>>
    /\ playerGames = [u \in Names |-> 0]
    /\ waitingPlayers = <<>>
    /\ fallbackTimers = {}
    /\ botTasks = <<>>
    /\ graceTimers = {}
    /\ forfeiting = {}
    /\ budget = [joins |-> 0, games |-> 0, discs |-> 0]
    /\ gsMutex = "free"
    /\ lastCall = NoCall
    /\ saved = <<>>
    /\ events = <<>>
    /\ lockedIO = {}
    /\ \E i \in 1 .. Len(TestSeeds) :
          /\ tBoard = DropAll(EmptyBoard, TestSeeds[i], 1)
          /\ tOut = [NoOut EXCEPT !.seed = i]

SpecTest == InitTest /\ [][NextTest]_vars

\* ------------------------------------------------------------------------
\* Sessions under way.  A seed is the list of columns played so far in one
\* game, Red first, with the bot's replies where the second seat is the bot.
\* ------------------------------------------------------------------------
PlaySeeds == <<
    \* two discs short of a full board, the last two cells top of columns 0 and 1
    [IsBot |-> FALSE,
     moves |-> <<0, 1, 0, 0, 2, 0, 0, 1, 1, 3, 1, 1, 2, 2, 4, 2, 2, 3, 2, 3,
                 3, 3, 4, 3, 6, 4, 6, 4, 4, 5, 4, 5, 5, 6, 5, 6, 6, 5, 6, 5>>],
    \* column 0 full, Red one disc from four in column 1, Yellow in column 2
    [IsBot |-> FALSE, moves |-> <<0, 0, 0, 0, 0, 0, 1, 2, 1, 2, 1, 2>>],
    \* Yellow to move, one disc from four in column 1
    [IsBot |-> FALSE, moves |-> <<0, 1, 0, 1, 0, 1, 2>>],
    \* against the bot, two cells left in column 0: the bot's last disc wins
    [IsBot |-> TRUE,
     moves |-> <<5, 3, 3, 3, 3, 3, 6, 3, 6, 2, 0, 2, 0, 2, 2, 2, 6, 6, 4, 2,
                 4, 5, 0, 0, 6, 4, 5, 4, 1, 4, 4, 1, 1, 1, 1, 1, 6, 5, 5, 5>>],
    \* against the bot, two cells left in column 0: the bot's last disc draws
    [IsBot |-> TRUE,
     moves |-> <<3, 3, 4, 3, 3, 3, 2, 1, 6, 5, 3, 2, 5, 2, 2, 2, 5, 2, 4, 4,
                 4, 5, 6, 4, 5, 4, 6, 6, 6, 1, 1, 1, 1, 1, 5, 0, 0, 0, 6, 0>>],
    \* against the bot, which is one disc from four in column 3
    [IsBot |-> TRUE, moves |-> <<0, 3, 0, 3, 0, 0, 1, 3>>]
>>

\* the seed played from move i on: every move must be accepted without ending
\* the game, and where the bot is to move its disc must land in the seed's column
RECURSIVE ReplayFrom(_, _, _)
RECURSIVE ReplayStep(_, _, _, _, _)
ReplayStep(step, seed, i, row, color) ==
    IF /\ step.outcome = "moved"
       /\ row # -1
       /\ step.game.Board[row][seed.moves[i]] = color
    THEN ReplayFrom(step.game, seed, i + 1)
    ELSE [game |-> step.game, ok |-> FALSE]

ReplayFrom(game, seed, i) ==
    IF i > Len(seed.moves) THEN [game |-> game, ok |-> TRUE]
    ELSE ReplayStep(IF seed.IsBot /\ game.CurrentPlayer = Yellow THEN makeBotMove(game)
                    ELSE handleMove(game, game.CurrentPlayer, seed.moves[i]),
                    seed, i, FindRow(game.Board, seed.moves[i]), game.CurrentPlayer)

\* the server with one session played up to a seed: alice joined on stream 1
\* and holds seat 1; seat 2 is bob, who joined on stream 2 while alice's
\* fallback goroutine slept (it still does), or the bot that goroutine brought;
\* a third stream and those after it have ended
InitSession ==
    \E i \in 1 .. Len(PlaySeeds) :
       LET seed == PlaySeeds[i]
           rp == ReplayFrom(NewGame(1, 1, 2, seed.IsBot), seed, 1)
           alice == [NewPlayer(NamePool[1], 1) EXCEPT !.Color = Red]
           bob == [NewPlayer(NamePool[2], 2) EXCEPT !.Color = Yellow]
           seated == [player |-> 0, game |-> 1, status |-> "open"]
       IN  /\ rp.ok
           /\ games = <<rp.game>>
           /\ players = IF seed.IsBot THEN <<alice, BotPlayer>> ELSE <<alice, bob>>
           /\ conns = [c \in Conns |->
                         IF c = 1 THEN [seated EXCEPT !.player = 1]
                         ELSE IF c = 2 /\ ~seed.IsBot THEN [seated EXCEPT !.player = 2]
                         ELSE IF c = 2 THEN [player |-> 0, game |-> 0, status |-> "idle"]
                         ELSE [player |-> 0, game |-> 0, status |-> "closed"]]
           /\ registry = (1 :> 1)
           /\ playerGames = [u \in Names |->
                               IF u = NamePool[1] \/ (u = NamePool[2] /\ ~seed.IsBot)
                               THEN 1 ELSE 0]
           /\ botTasks = <<IF seed.IsBot /\ rp.game.CurrentPlayer = Yellow THEN 1 ELSE 0>>
           /\ waitingPlayers = <<>>
           /\ fallbackTimers = IF seed.IsBot THEN {} ELSE {1}
           /\ graceTimers = {}
           /\ forfeiting = {}
           /\ budget = [joins |-> SeedJoins, games |-> SeedGames, discs |-> SeedPlaced]
           /\ gsMutex = "free"
           /\ lastCall = NoCall
           /\ saved = << <<>> >>
           /\ events = <<[game_start |-> 1, game_end |-> 0]>>
           /\ lockedIO = {"waiting"} \cup CreateGameWrites
           /\ tBoard = EmptyBoard
           /\ tOut = NoOut

SpecSession == InitSession /\ [][Next]_vars

\* ------------------------------------------------------------------------
\* A lobby with one player waiting: alice joined on stream 1 and matchPlayer
\* queued her (main.go:176-197); her fallback goroutine sleeps; stream 2 has
\* read nothing so far; a third stream and those after it have ended
\* ------------------------------------------------------------------------
InitLobby ==
    /\ conns = [c \in Conns |->
                  IF c = 1 THEN [player |-> 1, game |-> 0, status |-> "open"]
                  ELSE IF c = 2 THEN [player |-> 0, game |-> 0, status |-> "idle"]
                  ELSE [player |-> 0, game |-> 0, status |-> "closed"]]
    /\ players = <<NewPlayer(NamePool[1], 1)>>
    /\ games = <<>>
    /\ registry = <<>>
    /\ playerGames = [u \in Names |-> 0]
    /\ waitingPlayers = <<1>>
    /\ fallbackTimers = {1}
    /\ botTasks = <<>>
    /\ graceTimers = {}
    /\ forfeiting = {}
    /\ budget = [joins |-> LobbyJoins, games |-> LobbyGames, discs |-> LobbyPlaced]
    /\ gsMutex = "free"
    /\ lastCall = NoCall
    /\ saved = <<>>
    /\ events = <<>>
    /\ lockedIO = {"waiting"}
    /\ tBoard = EmptyBoard
    /\ tOut = NoOut

SpecLobby == InitLobby /\ [][Next]_vars

\* The goroutines that sleep and then run (fallback, grace, bot move) are
\* scheduled once their sleep is over; clients are free to send nothing.
\* a makeBotMove goroutine that can take its step
BotReady(g) ==
    /\ botTasks[g] > 0
    /\ ~GameLocked(g)
    /\ Placing(makeBotMove(games[g]).outcome) => budget.discs > 0

\* weak fairness of the makeBotMove goroutines, with what enables them
\* written out as BotReady
BotsRun ==
    \/ []<>(\A g \in 1 .. Len(games) : ~BotReady(g))
    \/ []<><<\E g \in 1 .. Len(games) : MakeBotMove(g)>>_vars

TimersRun ==
    /\ WF_vars(\E p \in fallbackTimers : FallbackTimer(p))
    /\ WF_vars(\E t \in graceTimers : GraceTimer(t[1], t[2]))
    /\ WF_vars(\E t \in forfeiting : GraceForfeit(t[1], t[2]))
    /\ BotsRun

SpecLobbyFair == InitLobby /\ [][Next]_vars /\ TimersRun

\* the goroutines that take game.mutex after their sleep and give it back:
\* the writes of a disconnect goroutine that holds it, and makeBotMove
GameTasksRun ==
    /\ WF_vars(\E t \in forfeiting : GraceForfeit(t[1], t[2]))
    /\ BotsRun

\* sessions under way, with those goroutines scheduled
SpecSessionFair == InitSession /\ [][Next]_vars /\ GameTasksRun

\* ------------------------------------------------------------------------
\* Properties.  What a run, a legal placement and a column with room are is
\* stated here over the grid alone, not through the functions they are
\* checked against.
\* ------------------------------------------------------------------------
axes == {<<0, 1>>, <<1, 0>>, <<1, 1>>, <<1, -1>>}

\* on some axis, four cells in line that include (row, col), all on the grid
\* and all of the colour of (row, col)
HasRun(board, row, col) ==
    \E d \in axes : \E s \in -3 .. 0 :
       \A k \in s .. (s + 3) :
          /\ InGrid(row + k * d[1], col + k * d[2])
          /\ board[row + k * d[1]][col + k * d[2]] = board[row][col]

HasRoom(board, col) == \E r \in Rows : board[r][col] = Empty

NoEmpty(board) == \A col \in Cols : ~HasRoom(board, col)

\* the lowest empty cell of a column, -1 when it has none
LowestEmpty(board, col) ==
    IF ~HasRoom(board, col) THEN -1
    ELSE CHOOSE r \in Rows :
            /\ board[r][col] = Empty
            /\ \A q \in (r + 1) .. (ROWS - 1) : board[q][col] # Empty

\* the filled cells of every column are one run that starts at the bottom row
Gravity(board) ==
    \A col \in Cols : \A r \in 0 .. (ROWS - 2) :
       board[r][col] # Empty => board[r + 1][col] # Empty

\* `after` is `before` with one disc more, in the lowest empty cell of a column
OneDiscMore(before, after) ==
    \E col \in Cols : \E color \in {Red, Yellow} :
       /\ LowestEmpty(before, col) # -1
       /\ after = [before EXCEPT ![LowestEmpty(before, col)][col] = color]

\* the columns in which a legal placement by `color` completes four in a row
WinningCols(board, color) ==
    {col \in Cols :
        /\ LowestEmpty(board, col) # -1
        /\ HasRun([board EXCEPT ![LowestEmpty(board, col)][col] = color],
                  LowestEmpty(board, col), col)}

Leftmost(cols) == CHOOSE c \in cols : \A d \in cols : c <= d

CountOf(board, color) ==
    Cardinality({rc \in Rows \X Cols : board[rc[1]][rc[2]] = color})

\* C1: for every board and every non-empty cell, checkWinner returns true if
\* and only if some axis through the cell holds four or more cells in line of
\* the cell's colour that include it; cells off the grid end a run.
C1_CheckWinnerIffRun ==
    (tOut.fn = "checkWinner" /\ tOut.before[tOut.row][tOut.col] # Empty)
       => ((tOut.ret = 1) <=> HasRun(tOut.before, tOut.row, tOut.col))

\* checkWinner returned true for a cell whose run lies on a diagonal: no
\* neighbour left, right or below has its colour
C1_Witness ==
    /\ tOut.fn = "checkWinner"
    /\ tOut.before[tOut.row][tOut.col] # Empty
    /\ tOut.ret = 1
    /\ \A d \in {<<0, -1>>, <<0, 1>>, <<1, 0>>} :
          InGrid(tOut.row + d[1], tOut.col + d[2])
             => tOut.before[tOut.row + d[1]][tOut.col + d[2]]
                   # tOut.before[tOut.row][tOut.col]

\* C2: gravity.  In every reachable state the filled cells of each column of
\* each session's board are one run starting at the bottom row, and a step
\* that changes a board (a human move, or a bot move with its simulations)
\* adds exactly one disc, in the lowest empty cell of its column; nothing is
\* written to a full column.
C2_Gravity ==
    /\ [](\A g \in 1 .. Len(games) : Gravity(games[g].Board))
    /\ [][\A g \in 1 .. Len(games) :
             games'[g].Board # games[g].Board
                => OneDiscMore(games[g].Board, games'[g].Board)]_vars

\* the bot has placed a disc, after its simulations, on a board that holds a
\* full column
C2_Witness ==
    /\ lastCall.fn = "makeBotMove"
    /\ Placing(lastCall.outcome)
    /\ \E col \in Cols : ~HasRoom(games[lastCall.game].Board, col)

\* the cases in which handleMove is to turn a move down: the session is
\* finished, the colour is not the one to move, the column is off the grid,
\* the column has no empty cell
RejectCase(game, color, col) ==
    \/ game.Winner # ""
    \/ color # game.CurrentPlayer
    \/ col < 0
    \/ col >= COLS
    \/ ~HasRoom(game.Board, col)

\* C3: a rejected move leaves the session unchanged.  Whenever a connection's
\* move reaches handleMove in one of the cases above, the session (board, turn
\* marker, result, end time) is after the step what it was before it, and no
\* bot task is added.
C3_RejectedMoveChangesNothing ==
    [][\A c \in Conns : \A col \in MoveCols :
          (/\ gsMutex # "wwait"
           /\ conns[c].player # 0
           /\ playerGames[players[conns[c].player].Username] # 0
           /\ RejectCase(games[playerGames[players[conns[c].player].Username]],
                         players[conns[c].player].Color, col)
           /\ Move(c, col))
             => (games' = games /\ botTasks' = botTasks)]_vars

\* handleMove turned a move down
C3_Witness ==
    /\ lastCall.fn = "handleMove"
    /\ lastCall.outcome \in {"finished", "notturn", "invalid", "full"}

\* C4: strict turn alternation.  In every session the discs placed alternate
\* between the sides, starting with Red: at all times a board holds as many
\* Yellow discs as Red ones, or one Red disc more.
C4_TurnsAlternate ==
    \A g \in 1 .. Len(games) :
       CountOf(games[g].Board, Red) - CountOf(games[g].Board, Yellow) \in {0, 1}

\* C5: Finished is terminal.  Once a session's result is set, no step (human
\* move, bot move, grace timer) changes its result, its board or its turn
\* marker, and a move that reaches the session is rejected as finished.
C5_FinishedIsTerminal ==
    [][\A g \in 1 .. Len(games) :
          games[g].Winner # ""
             => /\ games'[g].Winner = games[g].Winner
                /\ games'[g].Board = games[g].Board
                /\ games'[g].CurrentPlayer = games[g].CurrentPlayer
                /\ (lastCall' # lastCall /\ lastCall'.game = g)
                      => lastCall'.outcome = "finished"]_vars

\* a move reached a finished session and was rejected
C5_Witness ==
    /\ lastCall.outcome = "finished"
    /\ games[lastCall.game].Winner # ""

\* C6: outcome of an accepted move, human or bot.  When a step puts a disc
\* on a session's board: if the disc is part of four in line the session is
\* finished with the disc's side as winner, also when the board is now full;
\* otherwise, if the board is full, the session is finished as a draw;
\* otherwise the result stays unset and only the turn marker changes, to the
\* side that did not place the disc.
C6_AcceptedMoveOutcome ==
    [][\A g \in 1 .. Len(games) : \A r \in Rows : \A c \in Cols :
          games'[g].Board[r][c] # games[g].Board[r][c]
             => IF HasRun(games'[g].Board, r, c)
                THEN games'[g] = [games[g] EXCEPT !.Board = games'[g].Board,
                                                  !.Winner = games'[g].Board[r][c],
                                                  !.EndTime = TRUE]
                ELSE IF NoEmpty(games'[g].Board)
                THEN games'[g] = [games[g] EXCEPT !.Board = games'[g].Board,
                                                  !.Winner = "draw",
                                                  !.EndTime = TRUE]
                ELSE games'[g] = [games[g] EXCEPT
                                     !.Board = games'[g].Board,
                                     !.CurrentPlayer = Opposite(games'[g].Board[r][c])]]_vars

\* a human move completed four in line with the disc that filled the board
C6_Witness ==
    /\ lastCall.fn = "handleMove"
    /\ lastCall.outcome = "win"
    /\ NoEmpty(games[lastCall.game].Board)
    /\ games[lastCall.game].Winner = lastCall.color

\* C7: win-now outranks block.  On every board on which some column lets
\* Yellow complete four in a row by a legal placement, getBotMove returns the
\* leftmost such column, wherever Red's winning columns are.
C7_WinOutranksBlock ==
    (tOut.fn = "getBotMove" /\ WinningCols(tOut.before, Yellow) # {})
       => tOut.ret = Leftmost(WinningCols(tOut.before, Yellow))

\* getBotMove took Yellow's winning column although Red has a winning column
\* to the left of it
C7_Witness ==
    /\ tOut.fn = "getBotMove"
    /\ WinningCols(tOut.before, Yellow) # {}
    /\ WinningCols(tOut.before, Red) # {}
    /\ Leftmost(WinningCols(tOut.before, Red)) < Leftmost(WinningCols(tOut.before, Yellow))
    /\ tOut.ret = Leftmost(WinningCols(tOut.before, Yellow))

\* C8: block.  On every board on which Yellow has no winning column and Red
\* has at least one, getBotMove returns Red's leftmost winning column.
C8_BlocksLeftmost ==
    (/\ tOut.fn = "getBotMove"
     /\ WinningCols(tOut.before, Yellow) = {}
     /\ WinningCols(tOut.before, Red) # {})
       => tOut.ret = Leftmost(WinningCols(tOut.before, Red))

\* getBotMove blocked the leftmost of two winning columns of Red
C8_Witness ==
    /\ tOut.fn = "getBotMove"
    /\ WinningCols(tOut.before, Yellow) = {}
    /\ Cardinality(WinningCols(tOut.before, Red)) >= 2
    /\ tOut.ret = Leftmost(WinningCols(tOut.before, Red))

\* the column the neutral rule names: 3, then 2, 4, 1, 5, 0, 6, the first
\* with room; -1 when none has room
NeutralOrder == <<3, 2, 4, 1, 5, 0, 6>>

NeutralChoice(board) ==
    IF NoEmpty(board) THEN -1
    ELSE NeutralOrder[Leftmost({i \in 1 .. Len(NeutralOrder) : HasRoom(board, NeutralOrder[i])})]

\* C9: when neither side has a winning column getBotMove returns column 3 if
\* it has room, otherwise the first column with room in the order 2, 4, 1, 5,
\* 0, 6; on every board it returns -1 if and only if no column has room, and
\* a column it returns has an empty cell.
C9_NeutralOrder ==
    tOut.fn = "getBotMove"
       => /\ (WinningCols(tOut.before, Yellow) = {} /\ WinningCols(tOut.before, Red) = {})
                => tOut.ret = NeutralChoice(tOut.before)
          /\ (tOut.ret = -1) <=> NoEmpty(tOut.before)
          /\ tOut.ret # -1 => (tOut.ret \in Cols /\ HasRoom(tOut.before, tOut.ret))

\* with columns 1 to 5 full and no winning column, getBotMove returned
\* column 0, the last but one of the order
C9_Witness ==
    /\ tOut.fn = "getBotMove"
    /\ WinningCols(tOut.before, Yellow) = {}
    /\ WinningCols(tOut.before, Red) = {}
    /\ \A col \in 1 .. 5 : ~HasRoom(tOut.before, col)
    /\ HasRoom(tOut.before, 6)
    /\ tOut.ret = 0

\* C10: choosing a bot move never changes the board.  After getBotMove, and
\* after a canWin simulation, every cell has the value it had before the call.
C10_BoardUnchanged ==
    tOut.fn \in {"getBotMove", "canWin"} => tBoard = tOut.before

\* getBotMove ran both of its loops, simulating in columns with room, found
\* Red's winning column and left the board as it was
C10_Witness ==
    /\ tOut.fn = "getBotMove"
    /\ WinningCols(tOut.before, Yellow) = {}
    /\ WinningCols(tOut.before, Red) # {}
    /\ tOut.ret \in WinningCols(tOut.before, Red)
    /\ tBoard = tOut.before

\* ------------------------------------------------------------------------
\* C11: a join that finds a player waiting, and is not a rejoin, creates a
\* session between humans in that same call: the waiting player holds seat 1
\* and is Red, the joiner holds seat 2 and is Yellow, it is Red's turn, the
\* board is empty, there is no winner, the waiting player has left the queue
\* and both usernames are indexed to the new game.
\* ------------------------------------------------------------------------
C11_PairingOnJoin ==
    [][\A c \in Conns : \A username \in Names :
          (/\ gsMutex = "free"
           /\ RejoinGames(username) = {}
           /\ Len(waitingPlayers) > 0
           /\ Join(c, username))
          => LET g == Len(games')
                 game == games'[g]
                 opponent == Head(waitingPlayers)
             IN  /\ Len(games') = Len(games) + 1
                 /\ registry'[game.ID] = g
                 /\ game.Player1 = opponent
                 /\ game.Player2 = conns'[c].player
                 /\ game.Player2 \notin 1 .. Len(players)
                 /\ players'[game.Player2].Username = username
                 /\ players'[game.Player1].Color = Red
                 /\ players'[game.Player2].Color = Yellow
                 /\ ~game.IsBot
                 /\ game.CurrentPlayer = Red
                 /\ game.Board = EmptyBoard
                 /\ game.Winner = ""
                 /\ conns'[c].game = g
                 /\ waitingPlayers' = Tail(waitingPlayers)
                 /\ ~\E i \in 1 .. Len(waitingPlayers') : waitingPlayers'[i] = opponent
                 /\ playerGames'[players[opponent].Username] = g
                 /\ playerGames'[username] = g]_vars

\* bob's join on stream 2 has paired him with alice, who was waiting
C11_Witness ==
    \E g \in 1 .. Len(games) :
       /\ ~games[g].IsBot
       /\ games[g].Board = EmptyBoard
       /\ players[games[g].Player1].Username = NamePool[1]
       /\ players[games[g].Player2].Username = NamePool[2]
       /\ conns[2].game = g
       /\ waitingPlayers = <<>>

\* the Player objects a lobby run can allocate: one per arrival, one per
\* join that never got the lock, one bot per game, and alice
LobbyPlayers == 1 .. (LobbyJoins + LobbyGames + NumConns + 1)

Seated(p) == \E g \in 1 .. Len(games) : games[g].Player1 = p \/ games[g].Player2 = p

\* ------------------------------------------------------------------------
\* C12: every player put in the waiting queue eventually leaves it and holds
\* a seat; and when the fallback goroutine finds its player still queued,
\* the session it creates has the player in seat 1 as Red, the bot in seat 2
\* as Yellow, the bot flag set and Red to move.
\* ------------------------------------------------------------------------
C12_BotFallbackLiveness ==
    /\ \A p \in LobbyPlayers : InQueue(p) ~> (~InQueue(p) /\ Seated(p))
    /\ [][\A p \in LobbyPlayers :
            (gsMutex = "free" /\ InQueue(p) /\ FallbackTimer(p))
            => LET game == games'[Len(games')]
               IN  /\ Len(games') = Len(games) + 1
                   /\ game.Player1 = p
                   /\ players'[p].Color = Red
                   /\ players'[game.Player2] = BotPlayer
                   /\ game.IsBot
                   /\ game.CurrentPlayer = Red
                   /\ ~\E i \in 1 .. Len(waitingPlayers') : waitingPlayers'[i] = p]_vars

\* the Player that stream c joined as holds a seat of game g, which is in progress
HoldsSeat(c, g) ==
    /\ g <= Len(games)
    /\ games[g].Winner = ""
    /\ conns[c].player # 0
    /\ conns[c].player \in {games[g].Player1, games[g].Player2}

\* the grace goroutine of player p in game g sleeps, p is marked
\* disconnected and g is in progress
GracePending(p, g) ==
    IF <<p, g>> \in graceTimers
    THEN players[p].Disconnected /\ games[g].Winner = ""
    ELSE FALSE

\* that goroutine has run, and g is finished or p is no longer marked
GraceOver(p, g) ==
    IF p <= Len(players) /\ g <= Len(games) /\ <<p, g>> \notin graceTimers \cup forfeiting
    THEN games[g].Winner # "" \/ ~players[p].Disconnected
    ELSE FALSE

\* ------------------------------------------------------------------------
\* C13: when the stream of a player who holds a seat of a game in progress
\* ends, the disconnect path runs (the seat is marked disconnected and a
\* grace goroutine is started), and unless the player is reattached the
\* grace goroutine eventually finishes the game; for either seat, and also
\* for a player who was seated while waiting and has sent no move.
\* ------------------------------------------------------------------------
C13_ForfeitureLiveness ==
    /\ [][\A c \in Conns : \A g \in 1 .. LobbyGames :
            (HoldsSeat(c, g) /\ Close(c))
            => /\ players'[conns[c].player].Disconnected
               /\ <<conns[c].player, g>> \in graceTimers']_vars
    /\ \A p \in LobbyPlayers : \A g \in 1 .. LobbyGames :
          GracePending(p, g) ~> GraceOver(p, g)

\* ------------------------------------------------------------------------
\* C14: when a grace goroutine forfeits a game, the winner is the side
\* opposite to that of the player whose stream ended: whichever seat that
\* player has, against a human or the bot, and also when the player had
\* rejoined the game on a new stream before.
\* ------------------------------------------------------------------------
C14_ForfeitWinnerIsOtherSide ==
    [][\A t \in forfeiting :
          GraceForfeit(t[1], t[2])
          => games'[t[2]].Winner = Opposite(players[t[1]].Color)]_vars

\* the grace goroutine <<p, g>> sleeps after the stream of p ended, where p
\* is the player last attached to a seat of g (the seat's Conn is p's), and
\* g is in progress
DisconnectPending(p, g) ==
    /\ <<p, g>> \in graceTimers
    /\ players[p].Disconnected
    /\ games[g].Winner = ""
    /\ \E seat \in {games[g].Player1, games[g].Player2} :
          /\ players[seat].Username = players[p].Username
          /\ players[seat].Conn = players[p].Conn

\* ------------------------------------------------------------------------
\* C15: after every disconnect of a seated player from a game in progress,
\* the first and the later ones, a join under the same username before the
\* grace goroutine runs is a rejoin of that game: it returns that game,
\* queues nobody, creates no game, and the goroutine of that disconnect
\* will not forfeit.
\* ------------------------------------------------------------------------
C15_RejoinPreventsForfeit ==
    /\ [](\A t \in graceTimers :
            DisconnectPending(t[1], t[2])
            => t[2] \in RejoinGames(players[t[1]].Username))
    /\ [][\A t \in graceTimers : \A c \in Conns :
            (/\ DisconnectPending(t[1], t[2])
             /\ gsMutex = "free"
             /\ Join(c, players[t[1]].Username))
            => /\ conns'[c].game = t[2]
               /\ waitingPlayers' = waitingPlayers
               /\ games' = games
               /\ ~players'[t[1]].Disconnected]_vars

\* ------------------------------------------------------------------------
\* C16: a join that reattaches a disconnected seat changes nothing but that
\* seat's connection and its disconnected flag: the games (board, turn,
\* winner, seats), the colours of the seats, the waiting queue and the
\* username index stay as they were.
\* ------------------------------------------------------------------------
C16_RejoinFrame ==
    [][\A c \in Conns : \A username \in Names :
          (/\ gsMutex = "free"
           /\ RejoinGames(username) # {}
           /\ Join(c, username))
          => /\ games' = games
             /\ registry' = registry
             /\ waitingPlayers' = waitingPlayers
             /\ playerGames' = playerGames
             /\ \E g \in RejoinGames(username) :
                  \E seat \in {games[g].Player1, games[g].Player2} :
                    /\ players[seat].Username = username
                    /\ players[seat].Disconnected
                    /\ players'[seat] = [players[seat] EXCEPT !.Conn = c,
                                                             !.Disconnected = FALSE]
                    /\ \A q \in 1 .. Len(players) :
                          q # seat => players'[q] = players[q]
                    /\ conns'[c].game = g]_vars

\* a stream has rejoined: a seat is attached to a stream whose handler
\* holds another Player of the same username
C16_Witness ==
    \E c \in Conns : \E g \in 1 .. Len(games) :
       \E seat \in {games[g].Player1, games[g].Player2} :
          /\ conns[c].status = "open"
          /\ conns[c].game = g
          /\ conns[c].player \notin {0, seat}
          /\ players[seat].Conn = c
          /\ ~players[seat].Disconnected
          /\ players[conns[c].player].Username = players[seat].Username

\* the username in the seat of the winning colour; none for a draw
WinnerName(game) ==
    IF game.Winner = Red THEN players[game.Player1].Username
    ELSE IF game.Winner = Yellow THEN players[game.Player2].Username
    ELSE ""

\* ------------------------------------------------------------------------
\* C17: a game in progress has no saved row; a finished game (won by a
\* human's move, won by the bot's move, drawn, or forfeited) has exactly one,
\* and its winner column is the username in seat 1 when Red won, the
\* username in seat 2 when Yellow won, and empty for a draw.
\* ------------------------------------------------------------------------
C17_SavedOnce ==
    \A g \in 1 .. Len(games) :
       IF games[g].Winner = "" THEN saved[g] = <<>>
       ELSE saved[g] = <<WinnerName(games[g])>>

\* a human's move has won a game and the game has been saved
C17_Witness ==
    /\ lastCall.fn = "handleMove"
    /\ lastCall.outcome = "win"
    /\ games[lastCall.game].Winner = lastCall.color
    /\ Len(saved[lastCall.game]) = 1

\* ------------------------------------------------------------------------
\* C18: for every finished game (won, drawn, or forfeited after a
\* disconnect) exactly one game_end event has been sent, and exactly one
\* game_start event was sent when it was created.
\* ------------------------------------------------------------------------
C18_OneEndEvent ==
    \A g \in 1 .. Len(games) :
       /\ events[g].game_start = 1
       /\ games[g].Winner # "" => events[g].game_end = 1

\* the usernames of the humans seated in game g
SeatNames(g) ==
    {players[games[g].Player1].Username, players[games[g].Player2].Username} \ {"Bot"}

\* ------------------------------------------------------------------------
\* C19: no username is seated in two games that are both in progress;
\* a join under a username that is seated in a game in progress, on the
\* same stream or another, the seat marked disconnected or not, never
\* leads to a second such game.
\* ------------------------------------------------------------------------
C19_OneSessionPerIdentity ==
    \A g \in 1 .. Len(games) : \A h \in 1 .. Len(games) :
       (g # h /\ games[g].Winner = "" /\ games[h].Winner = "")
       => SeatNames(g) \cap SeatNames(h) = {}

\* ------------------------------------------------------------------------
\* C20: the waiting queue never holds a username twice, and a join that
\* pairs takes the player at the head of the queue, the one who has waited
\* longest, as the opponent.
\* ------------------------------------------------------------------------
C20_QueueDistinctFifo ==
    /\ [](\A i \in 1 .. Len(waitingPlayers) : \A j \in 1 .. Len(waitingPlayers) :
            i # j => players[waitingPlayers[i]].Username # players[waitingPlayers[j]].Username)
    /\ [][\A c \in Conns : \A username \in Names :
            (Join(c, username) /\ Len(games') > Len(games))
            => /\ waitingPlayers # <<>>
               /\ games'[Len(games')].Player1 = Head(waitingPlayers)
               /\ games'[Len(games')].Player2 = conns'[c].player
               /\ waitingPlayers' = Tail(waitingPlayers)]_vars

\* a join under the username of the player who waits has been paired with
\* her instead of being queued behind her
C20_Witness ==
    \E g \in 1 .. Len(games) :
       /\ ~games[g].IsBot
       /\ games[g].Player1 # games[g].Player2
       /\ players[games[g].Player1].Username = players[games[g].Player2].Username
       /\ waitingPlayers = <<>>

\* ------------------------------------------------------------------------
\* C21: every move that handleMove turns down for a rule violation (not the
\* sender's turn, a column outside 0 .. COLS-1, a full column) is answered
\* with an error message to the player who sent it.
\* ------------------------------------------------------------------------
C21_RejectionReported ==
    (lastCall.fn = "handleMove" /\ lastCall.outcome \in {"notturn", "invalid", "full"})
    => lastCall.reply # ""

\* stream c has no session: it has sent no join, or the username it joined
\* under is indexed to no game
NoSession(c) ==
    \/ conns[c].player = 0
    \/ playerGames[players[conns[c].player].Username] = 0

\* ------------------------------------------------------------------------
\* C22: a move message on a stream that has no session (no join so far, or
\* joined and still waiting) is answered with an error message to that
\* client, changes no game, and the stream stays open for later messages.
\* ------------------------------------------------------------------------
C22_MoveWithoutSession ==
    [][\A c \in Conns : \A col \in MoveCols :
          (gsMutex # "wwait" /\ NoSession(c) /\ Move(c, col))
          => /\ lastCall'.fn = "move"
             /\ lastCall'.reply # ""
             /\ games' = games
             /\ conns'[c].status = "open"
             /\ gsMutex' = gsMutex]_vars

\* ------------------------------------------------------------------------
\* C23: isBoardFull returns true exactly when no cell of the board is
\* empty: false for the empty board and for every board with an empty cell,
\* true for a board filled completely.
\* ------------------------------------------------------------------------
C23_FullIffNoEmptyCell ==
    tOut.fn = "isBoardFull"
    => /\ (tOut.ret = 1) <=> ~(\E r \in Rows : \E c \in Cols : tOut.before[r][c] = Empty)
       /\ tOut.before = EmptyBoard => tOut.ret = 0

\* isBoardFull has returned true for a board, and that board was filled by
\* the last drop
C23_Witness ==
    /\ tOut.fn = "isBoardFull"
    /\ tOut.ret = 1
    /\ tOut.drops > 0

\* ------------------------------------------------------------------------
\* C24: game identifiers are unique: no two games created bear the same
\* identifier, so that every game created still has its own entry in the
\* registry.
\* ------------------------------------------------------------------------
C24_UniqueIDs ==
    /\ \A g \in 1 .. Len(games) : \A h \in 1 .. Len(games) :
          g # h => games[g].ID # games[h].ID
    /\ \A g \in 1 .. Len(games) :
          games[g].ID \in DOMAIN registry /\ registry[games[g].ID] = g

\* the games whose Winner the rejoin loop of matchPlayer reads: every game
\* in gs.games
JoinReads == RegisteredGames

\* the games whose game.mutex is held
LockedGames == {t[2] : t \in forfeiting}

\* ------------------------------------------------------------------------
\* C25: the critical sections of one game (human move, bot move, forfeiture)
\* never overlap, and nothing reads or writes a game's board, turn or
\* winner without holding that game's lock: in particular matchPlayer's
\* rejoin lookup never looks at a game while another goroutine is inside
\* that game's critical section.
\* ------------------------------------------------------------------------
C25_SessionLockDiscipline ==
    /\ [](\A t \in forfeiting : \A u \in forfeiting : t[2] = u[2] => t = u)
    /\ [][\A g \in LockedGames :
            /\ games'[g] # games[g] => \E p \in 1 .. Len(players) : GraceForfeit(p, g)
            /\ \A c \in Conns : \A username \in Names :
                  (gsMutex = "free" /\ Join(c, username)) => g \notin JoinReads]_vars

\* ------------------------------------------------------------------------
\* C26: nothing is written to a client and no analytics event is sent while
\* gs.mutex is held: not in a join, a rejoin, a pairing or the fallback
\* goroutine.
\* ------------------------------------------------------------------------
C26_NoIOUnderMatchmakerLock == lockedIO = {}

\* ------------------------------------------------------------------------
\* C27: reattaching and forfeiting exclude each other, however a rejoining
\* join (under gs.mutex) and the grace goroutine (under game.mutex) are
\* interleaved: the goroutine never forfeits a game for a disconnect whose
\* player a join has reattached meanwhile, and a join never reattaches a
\* player to a game whose winner is set.
\* ------------------------------------------------------------------------
C27_ReattachExcludesForfeit ==
    [][/\ \A t \in forfeiting :
            GraceForfeit(t[1], t[2]) => players[t[1]].Disconnected
       /\ \A c \in Conns : \A username \in Names :
            (gsMutex = "free" /\ RejoinGames(username) # {} /\ Join(c, username))
            => games'[conns'[c].game].Winner = ""]_vars

\* ------------------------------------------------------------------------
\* C28
\* ------------------------------------------------------------------------
\* the games in which player object p holds a seat
SeatsOf(p) == {g \in 1 .. Len(games) : p \in {games[g].Player1, games[g].Player2}}

\* the fallback goroutine of p runs with gs.mutex free and p is no longer queued
StaleTimer(p) == gsMutex = "free" /\ ~InQueue(p) /\ FallbackTimer(p)

\* the fallback goroutine of p runs with gs.mutex free and p is still queued
LiveTimer(p) == gsMutex = "free" /\ InQueue(p) /\ FallbackTimer(p)

\* C28: a fallback timer that fires after its participant was paired creates
\* no session, leaves the queue and every index entry as they were; a timer
\* that finds its participant queued removes that participant only and seats
\* it as Red against a new bot, every other seat staying as it was; so no
\* participant ever holds a seat in two sessions.
C28_TimerSeatsOnlyItsOwn ==
    /\ [](\A p \in 1 .. Len(players) : Cardinality(SeatsOf(p)) <= 1)
    /\ [][\A p \in fallbackTimers :
            /\ StaleTimer(p) =>
                 /\ games' = games
                 /\ players' = players
                 /\ waitingPlayers' = waitingPlayers
                 /\ playerGames' = playerGames
                 /\ registry' = registry
            /\ LiveTimer(p) =>
                 /\ waitingPlayers' = SelectSeq(waitingPlayers, LAMBDA q : q # p)
                 /\ Len(games') = Len(games) + 1
                 /\ games'[Len(games')].Player1 = p
                 /\ games'[Len(games')].IsBot
                 /\ games'[Len(games')].Player2 = Len(players')
                 /\ Len(players') = Len(players) + 1
                 /\ \A g \in 1 .. Len(games) : games'[g] = games[g]
                 /\ \A u \in Names : u # players[p].Username
                                        => playerGames'[u] = playerGames[u]]_vars

\* the first participant was paired with a human, its fallback timer has
\* since fired, and the only session is that human session
C28_Witness ==
    /\ Len(players) >= 2
    /\ fallbackTimers = {}
    /\ Len(games) = 1
    /\ ~games[1].IsBot
    /\ games[1].Player1 = 1
    /\ ~InQueue(1)
    /\ gsMutex = "free"

\* ------------------------------------------------------------------------
\* C29
\* ------------------------------------------------------------------------
\* the bot goroutine of game g runs and places a disc
BotPlaces(g) == Placing(makeBotMove(games[g]).outcome) /\ MakeBotMove(g)

\* C29: every disc the bot places is placed while the session's result is
\* unset and the turn marker is Yellow; a bot task that runs after the session
\* finished leaves the session as it was; a bot task places at most one
\* Yellow disc and no Red one.
C29_BotPlacesOnItsTurn ==
    [][\A g \in 1 .. Len(games) :
         /\ BotPlaces(g) => games[g].Winner = "" /\ games[g].CurrentPlayer = Yellow
         /\ (games[g].Winner # "" /\ MakeBotMove(g)) => games'[g] = games[g]
         /\ MakeBotMove(g) =>
              /\ CountOf(games'[g].Board, Yellow) <= CountOf(games[g].Board, Yellow) + 1
              /\ CountOf(games'[g].Board, Red) = CountOf(games[g].Board, Red)]_vars

\* ------------------------------------------------------------------------
\* C30
\* ------------------------------------------------------------------------
\* game g is a bot session in progress with the turn marker on Yellow
BotToMove(g) ==
    IF g <= Len(games)
    THEN games[g].IsBot /\ games[g].Winner = "" /\ games[g].CurrentPlayer = Yellow
    ELSE FALSE

\* game g is finished or its turn marker is on Red
BotAnswered(g) ==
    IF g <= Len(games)
    THEN games[g].Winner # "" \/ games[g].CurrentPlayer = Red
    ELSE FALSE

\* an accepted move of the human side, Red, in bot session g that leaves it
\* in progress
HumanMoved(g) ==
    /\ games[g].IsBot
    /\ lastCall'.fn = "handleMove" /\ lastCall'.game = g /\ lastCall'.outcome = "moved"
    /\ lastCall'.color = Red
    /\ \E c \in Conns : \E col \in MoveCols : Move(c, col)

\* C30: in a session against the bot, an accepted human move that leaves the
\* session in progress starts a bot task; whenever such a session is in
\* progress with the turn marker on Yellow a bot task is pending, and
\* eventually the session is finished or the turn marker is Red; the bot
\* task that finds the session in progress places exactly one Yellow disc and
\* leaves the turn marker on Red or the session finished.
C30_BotResponseLiveness ==
    /\ \A g \in 1 .. (SeedGames + 1) : BotToMove(g) ~> BotAnswered(g)
    /\ [](\A g \in 1 .. Len(games) : BotToMove(g) => botTasks[g] > 0)
    /\ [][\A g \in 1 .. Len(games) :
            /\ HumanMoved(g) => botTasks'[g] = botTasks[g] + 1 /\ BotToMove(g)'
            /\ (games[g].Winner = "" /\ MakeBotMove(g)) =>
                 /\ CountOf(games'[g].Board, Yellow) = CountOf(games[g].Board, Yellow) + 1
                 /\ CountOf(games'[g].Board, Red) = CountOf(games[g].Board, Red)
                 /\ games'[g].Winner # "" \/ games'[g].CurrentPlayer = Red]_vars

\* the bot has answered a human move of this run: its disc is the last one
\* placed, after the human's, and the session is finished or Red is to move
C30_Witness ==
    /\ games[1].IsBot
    /\ lastCall.fn = "makeBotMove" /\ lastCall.game = 1 /\ Placing(lastCall.outcome)
    /\ budget.discs = SeedPlaced - 2
    /\ BotAnswered(1)

\* ------------------------------------------------------------------------
\* C31
\* ------------------------------------------------------------------------
\* what the claims call game state: of every session the board, the turn
\* marker, the result and the end time, and the rows saved
GameStateKept == games' = games /\ saved' = saved /\ events' = events

\* the disconnect goroutine of player p in game g runs and finds the game
\* finished or p no longer marked
TimerFindsNothing(p, g) ==
    /\ games[g].Winner # "" \/ ~players[p].Disconnected
    /\ GraceTimer(p, g)

\* C31: the end of a stream, with or without handleDisconnect, changes no
\* session (board, turn marker, result), finished or in progress; a grace
\* goroutine that finds its session finished or its player no longer marked
\* changes nothing and forfeits nothing; and no grace goroutine writes a
\* result into a finished session.
C31_DisconnectFrame ==
    /\ [](\A t \in forfeiting : games[t[2]].Winner = "")
    /\ [][/\ \A c \in Conns : Close(c) => GameStateKept
          /\ \A t \in graceTimers :
                /\ GraceTimer(t[1], t[2]) => GameStateKept
                /\ TimerFindsNothing(t[1], t[2])
                     => forfeiting' = forfeiting /\ players' = players]_vars

\* a seat of a session that a move finished is marked disconnected, and its
\* grace goroutine has run: the result is still the one the move gave
C31_Witness ==
    /\ Len(games) >= 1
    /\ games[1].Winner # ""
    /\ lastCall.outcome \in {"win", "draw"}
    /\ \E p \in {games[1].Player1, games[1].Player2} : players[p].Disconnected
    /\ graceTimers = {}
    /\ forfeiting = {}
    /\ Len(saved[1]) = 1

\* ------------------------------------------------------------------------
\* C32
\* ------------------------------------------------------------------------
\* a scan of the whole board finds four in line of one colour
FourInARow(board) ==
    \E r \in Rows : \E c \in Cols :
       /\ board[r][c] # Empty
       /\ \E d \in axes : \A k \in 1 .. 3 :
             /\ InGrid(r + k * d[1], c + k * d[2])
             /\ board[r + k * d[1]][c + k * d[2]] = board[r][c]

\* game g has a disc more after the step
DiscPlaced(g) == games[g].Winner = "" /\ games'[g].Board # games[g].Board

\* C32: a session whose result is unset has no four in line of either colour
\* anywhere on its board and has an empty cell; and a placement gives the
\* session a colour as its result exactly when a scan of the whole board
\* finds four in line afterwards, and "draw" exactly when it finds none and
\* no empty cell.
C32_IncrementalCheckSuffices ==
    /\ [](\A g \in 1 .. Len(games) :
            games[g].Winner = ""
            => ~FourInARow(games[g].Board) /\ ~NoEmpty(games[g].Board))
    /\ [][\A g \in 1 .. Len(games) :
            DiscPlaced(g) =>
               /\ games'[g].Winner \in {Red, Yellow} <=> FourInARow(games'[g].Board)
               /\ games'[g].Winner = "draw"
                    <=> (~FourInARow(games'[g].Board) /\ NoEmpty(games'[g].Board))]_vars

\* a move has just completed four in line and the session has the mover's
\* colour as its result
C32_Witness ==
    /\ lastCall.fn = "handleMove"
    /\ lastCall.outcome = "win"
    /\ games[lastCall.game].Winner = lastCall.color
    /\ FourInARow(games[lastCall.game].Board)

\* ------------------------------------------------------------------------
\* C33
\* ------------------------------------------------------------------------
\* the disconnect goroutine of player p in game g has not finished, and p
\* has been reattached since it was started
StaleTimer33(p, g) ==
    /\ <<p, g>> \in graceTimers \cup forfeiting
    /\ ~players[p].Disconnected

\* that goroutine takes a step
TimerStep(p, g) == GraceTimer(p, g) \/ GraceForfeit(p, g)

\* C33: a grace goroutine whose player has been reattached since the
\* disconnect that started it never forfeits: whatever step it takes leaves
\* every session as it was, also when the same identity has disconnected
\* again in between; a forfeit is written only by a goroutine whose player is
\* still marked disconnected.
C33_StaleTimerNeverForfeits ==
    [][\A p \in 1 .. Len(players) : \A g \in 1 .. Len(games) :
         (StaleTimer33(p, g) /\ TimerStep(p, g))
         => games' = games /\ saved' = saved /\ <<p, g>> \notin forfeiting']_vars

\* ------------------------------------------------------------------------
\* C34
\* ------------------------------------------------------------------------
\* the move message read on stream c was given to handleMove, which placed
\* a disc
MovePlaced(c) ==
    /\ \E col \in MoveCols : Move(c, col)
    /\ lastCall'.fn = "handleMove"
    /\ Placing(lastCall'.outcome)

\* the seats of game g that stream c is attached to
SeatsOn(c, g) == {s \in {games[g].Player1, games[g].Player2} : players[s].Conn = c}

\* C34: a disc placed by a move message is placed in a session in which the
\* sender's stream holds a seat, and with that seat's colour.
C34_MoveRoutedToOwnSeat ==
    [][\A c \in Conns :
         MovePlaced(c)
         => \E s \in SeatsOn(c, lastCall'.game) : players[s].Color = lastCall'.color]_vars

\* ------------------------------------------------------------------------
\* C35
\* ------------------------------------------------------------------------
\* C35: in every session created by pairing from the waiting queue the two
\* seats hold different usernames and are attached to different streams.
C35_SeatsDiffer ==
    \A g \in 1 .. Len(games) :
       ~games[g].IsBot
       => /\ players[games[g].Player1].Username # players[games[g].Player2].Username
          /\ players[games[g].Player1].Conn # players[games[g].Player2].Conn

\* ------------------------------------------------------------------------
\* C36
\* ------------------------------------------------------------------------
\* the handler of the stream player p joined on has returned
StreamEnded(p) == players[p].Conn # 0 /\ conns[players[p].Conn].status = "closed"

\* C36: whenever a session is created, by pairing or by the fallback
\* goroutine, the stream of each human it seats has not ended: a player
\* whose stream ended while waiting is never seated.
C36_SeatedWhileLive ==
    [][Len(games') > Len(games)
       => \A s \in {games'[Len(games')].Player1, games'[Len(games')].Player2} :
             ~StreamEnded(s)']_vars

====
